---------------------------- MODULE Spec2Model ----------------------------
(***************************************************************************)
(* A model of r-sizer (src/main.rs): a variable-length record              *)
(*   { id: u32, length: u16, data: [T; length] }                           *)
(* kept in one heap allocation behind the owning handle OwnedInstanceRef.  *)
(*                                                                         *)
(* Two specifications:                                                     *)
(*   SpecLayout  the layout calculator InstanceLayoutInfo::new as a pure   *)
(*               function of (T, length), inputs drawn in Init;            *)
(*   Spec        the life cycle of records: new (with the initializer      *)
(*               callback), the accessors, and Drop, over a byte-addressed *)
(*               heap.                                                     *)
(*                                                                         *)
(* Machine words are WordBits wide instead of 64, so that the overflow     *)
(* cases of usize / isize arithmetic are within TLC's integers.  Layout    *)
(* is std::alloc::Layout as of Rust 1.65 and later: a size, rounded up to  *)
(* its alignment, never exceeds isize::MAX.                                *)
(***************************************************************************)
EXTENDS Integers, Sequences, FiniteSets, TLC

VARIABLES
    lay,        \* SpecLayout: the last call of InstanceLayoutInfo::new and its outcome
    heap,       \* allocator: address of a live allocation -> its layout and bytes
    handles,    \* the owner's variables that may hold an OwnedInstanceRef<T>
    pc,         \* where the single thread is: idle, inside new's element loop, unwinding
    log,        \* events of the operation in progress / last completed, in program order
    last        \* outcome of the last completed operation

vars == <<lay, heap, handles, pc, log, last>>

-----------------------------------------------------------------------------
(* Bounds *)

WordBits == 10      \* width of usize / isize in the model (64 on the real target)
MaxLen == 7         \* largest length: u16 requested (65535 in the program)
MaxRecLen == 2      \* largest length of a record that is actually built
MaxHandles == 2     \* how many owner variables SpecOwners has
MaxId == 1          \* ids are 0..MaxId
MaxVal == 1         \* element values are 0..MaxVal

RECURSIVE Pow2(_)
Pow2(n) == IF n = 0 THEN 1 ELSE 2 * Pow2(n - 1)

USIZE_MAX == Pow2(WordBits) - 1
ISIZE_MAX == Pow2(WordBits - 1) - 1

Max(a, b) == IF a >= b THEN a ELSE b

-----------------------------------------------------------------------------
(* Element types: size and alignment of T.  size is a multiple of align,   *)
(* align a power of two, and size <= isize::MAX, as for every Rust type.   *)

Ty(s, a) == [size |-> s, align |-> a]

\* union FieldValue: the largest members are i64 / f64
FieldValue == Ty(8, 8)

TU8 == Ty(1, 1)
TU16 == Ty(2, 2)
TU128 == Ty(16, 16)
\* the largest type there is: [u8; isize::MAX]
THuge == Ty(ISIZE_MAX, 1)
\* one element of it fits in an array, but not behind the 6-byte header
TBig == Ty(ISIZE_MAX - 3, 1)
\* the largest element that still fits behind the header
TFit == Ty(ISIZE_MAX - 9, 1)
\* half the address space, aligned to its size
THalf == Ty(Pow2(WordBits - 2), Pow2(WordBits - 2))

LayoutTypes ==
    { Ty(0, 1), TU8, Ty(2, 1), Ty(3, 1), TU16, Ty(6, 2), Ty(4, 4), Ty(12, 4),
      FieldValue, Ty(24, 8), TU128, Ty(32, 32), THuge, TBig, TFit, THalf }

Lengths == 0 .. MaxLen

-----------------------------------------------------------------------------
(* std::alloc::Layout, as the program uses it *)

Ok(v) == [tag |-> "Ok", val |-> v]
Err == [tag |-> "Err"]
Panic == [tag |-> "Panic"]

IsOk(r) == r.tag = "Ok"

RoundUp(x, a) == ((x + a - 1) \div a) * a

\* Layout::from_size_align: the size, rounded up to align, must not exceed isize::MAX
from_size_align(size, align) ==
    IF size > ISIZE_MAX - (align - 1)
    THEN Err
    ELSE Ok([size |-> size, align |-> align])

\* Layout::array::<T>(n)
Layout_array(T, n) ==
    IF T.size # 0 /\ n > (ISIZE_MAX - (T.align - 1)) \div T.size
    THEN Err
    ELSE Ok([size |-> T.size * n, align |-> T.align])

extend_nopad(self, next) ==
    LET new_align == Max(self.align, next.align)
        offset == self.size
        new_size == offset + next.size
        l == from_size_align(new_size, new_align)
    IN  IF new_size > USIZE_MAX \/ ~IsOk(l) THEN Err
        ELSE Ok(<<l.val, offset>>)

\* Layout::extend: (the layout of self followed by next, the offset of next)
extend(self, next) ==
    LET new_align == Max(self.align, next.align)
        offset == RoundUp(self.size, next.align)
        new_size == offset + next.size
        l == from_size_align(new_size, new_align)
    IN  IF new_size > USIZE_MAX \/ ~IsOk(l) THEN Err
        ELSE Ok(<<l.val, offset>>)

pad_to_align_none(l) == l

\* Layout::pad_to_align
pad_to_align(l) == [size |-> RoundUp(l.size, l.align), align |-> l.align]

BASE_LAYOUT == from_size_align(0, 1)
ID_LAYOUT == from_size_align(4, 4)
LENGTH_LAYOUT == from_size_align(2, 2)

\* fn compute_id_layout_part
compute_id_layout_part ==
    IF ~IsOk(BASE_LAYOUT) \/ ~IsOk(ID_LAYOUT) THEN Err
    ELSE extend(BASE_LAYOUT.val, ID_LAYOUT.val)

\* fn compute_length_layout_part
compute_length_layout_part ==
    IF ~IsOk(compute_id_layout_part) \/ ~IsOk(LENGTH_LAYOUT) THEN Err
    ELSE extend(compute_id_layout_part.val[1], LENGTH_LAYOUT.val)

\* fn compute_array_layout_part::<T>(length); Layout::array(..).unwrap() panics on Err
compute_array_layout_part(T, length) ==
    LET lp == compute_length_layout_part
        arr == Layout_array(T, length)
    IN  IF ~IsOk(lp) THEN Err
        ELSE IF ~IsOk(arr) THEN Panic
        ELSE extend(lp.val[1], arr.val)

\* InstanceLayoutInfo::<T>::new(length)
InstanceLayoutInfo_new(T, length) ==
    LET b == BASE_LAYOUT
        i == extend(b.val, ID_LAYOUT.val)
        l == extend(i.val[1], LENGTH_LAYOUT.val)
        arr == Layout_array(T, length)
        a == extend(l.val[1], arr.val)
    IN  IF ~IsOk(b) \/ ~IsOk(ID_LAYOUT) THEN Err
        ELSE IF ~IsOk(i) \/ ~IsOk(LENGTH_LAYOUT) THEN Err
        ELSE IF ~IsOk(l) THEN Err
        ELSE IF ~IsOk(arr) THEN Panic
        ELSE IF ~IsOk(a) THEN Err
        ELSE Ok([layout |-> pad_to_align(a.val[1]),
                 id_offset |-> i.val[2],
                 length_offset |-> l.val[2],
                 array_start_offset |-> a.val[2]])

-----------------------------------------------------------------------------
(* SpecLayout: the calculator applied to inputs drawn from bounded sets *)

NoCall == [T |-> Ty(0, 1), length |-> 0, called |-> FALSE, res |-> Err]

HeapInit == [a \in { } |-> 0]
HandlesInit == [h \in 1 .. MaxHandles |-> [state |-> "none", ptr |-> 0, T |-> Ty(0, 1)]]
PcInit == [op |-> "idle"]
LastInit == [op |-> "none"]

InitLayout ==
    /\ \E T \in LayoutTypes, n \in Lengths :
          lay = [T |-> T, length |-> n, called |-> FALSE, res |-> Err]
    /\ heap = HeapInit
    /\ handles = HandlesInit
    /\ pc = PcInit
    /\ log = << >>
    /\ last = LastInit

ComputeLayout ==
    /\ ~lay.called
    /\ lay' = [lay EXCEPT !.called = TRUE,
                          !.res = InstanceLayoutInfo_new(lay.T, lay.length)]
    /\ UNCHANGED <<heap, handles, pc, log, last>>

NextLayout == ComputeLayout

SpecLayout == InitLayout /\ [][NextLayout]_vars

-----------------------------------------------------------------------------
(* Memory.  An allocation is `size` bytes.  A value of n bytes written at   *)
(* offset o is a cell: its first byte carries the type and the value, the   *)
(* n-1 bytes after it are continuation bytes.  A read of a T at o is        *)
(* defined when a whole cell of that type and size starts at o; any other   *)
(* read (uninitialized, out of bounds, straddling cells) is undefined       *)
(* behaviour and may produce any value.                                      *)

Values == 0 .. MaxVal
Ids == 0 .. MaxId
Handles == 1 .. MaxHandles
\* a 16-bit index: everything up to two past the largest length
Indices == 0 .. MaxRecLen + 2

\* the element types records are built of, and those whose records overflow
RecTypes == { TU8, TU16, FieldValue, TU128 }
OverflowTypes == { THuge, TBig }

\* the (T, length) pairs new is called with
NewInputs ==
    (RecTypes \X (0 .. MaxRecLen)) \cup (OverflowTypes \X Lengths)

Uninit == [tag |-> "uninit", v |-> 0]
Cont == [tag |-> "cont", v |-> 0]

FreshMem(size) == [o \in 0 .. size - 1 |-> Uninit]

\* std::ptr::write of an n-byte value of type tag at base + off
WriteCell(mem, off, n, tag, v) ==
    [o \in DOMAIN mem |->
        IF o = off /\ n > 0 THEN [tag |-> tag, v |-> v]
        ELSE IF o > off /\ o < off + n THEN Cont
        ELSE mem[o]]

\* is a read of an n-byte value of type tag at base + off defined?
Readable(mem, off, n, tag) ==
    /\ n > 0
    /\ off \in DOMAIN mem
    /\ off + n - 1 \in DOMAIN mem
    /\ mem[off].tag = tag
    /\ \A o \in off + 1 .. off + n - 1 : mem[o] = Cont
    /\ (off + n \in DOMAIN mem => mem[off + n] # Cont)

\* what a read of an n-byte value of type tag at base + off may produce
ReadOutcomes(mem, off, n, tag, range) ==
    IF Readable(mem, off, n, tag) THEN { mem[off].v } ELSE range

Bytes(off, n) == off .. off + n - 1

-----------------------------------------------------------------------------
(* Accessors of OwnedInstanceRef<T>, as functions of the pointer *)

\* OwnedInstanceRef::id: the u32 at the id offset
ReadId(ptr) == heap[ptr].mem[compute_id_layout_part.val[2]].v

\* OwnedInstanceRef::length: the u16 at the length offset
ReadLength(ptr) == heap[ptr].mem[compute_length_layout_part.val[2]].v

\* OwnedInstanceRef::get: the bounds check, `i >= length` returns None
get_in_bounds(i, length) == ~(i >= length)

\* OwnedInstanceRef::get: byte offset of slot i
get_offset(T, length, i) ==
    compute_array_layout_part(T, length).val[2] + i * T.size

get_mut_in_bounds_le(i, length) == ~(i > length)

\* OwnedInstanceRef::get_mut: the bounds check, `i >= length` returns None
get_mut_in_bounds(i, length) == ~(i >= length)

get_mut_offset_fv(T, length, i) ==
    compute_array_layout_part(FieldValue, length).val[2] + i * T.size

\* OwnedInstanceRef::get_mut: byte offset of slot i
get_mut_offset(T, length, i) ==
    compute_array_layout_part(T, length).val[2] + i * T.size

\* OwnedInstanceRef::as_slice: byte offset of element i of the returned slice
as_slice_offset(T, length, i) ==
    compute_array_layout_part(FieldValue, length).val[2] + i * T.size

\* OwnedInstanceRef::as_mut_slice: byte offset of element i of the returned slice
as_mut_slice_offset(T, length, i) ==
    compute_array_layout_part(T, length).val[2] + i * T.size

\* the slices a view of `length` T's at the given offsets may show:
\* std::slice::from_raw_parts
Views(mem, T, length, off) ==
    { s \in [1 .. length -> Values] :
        \A k \in 1 .. length :
            s[k] \in ReadOutcomes(mem, off[k - 1], T.size, "T", Values) }

-----------------------------------------------------------------------------
(* The life cycle of records.  A panic unwinds the thread: the owner's      *)
(* handles are dropped, nothing else runs.                                   *)

None == [tag |-> "None"]
Some(v) == [tag |-> "Some", val |-> v]

Ev(e, i, v) == [e |-> e, i |-> i, v |-> v]

Init ==
    /\ lay = NoCall
    /\ heap = HeapInit
    /\ handles = HandlesInit
    /\ pc = PcInit
    /\ log = << >>
    /\ last = LastInit

Unwinding == [op |-> "unwinding"]

\* the address std::alloc::alloc returns: one that is not in use
FreshAddr == CHOOSE a \in 1 .. Cardinality(DOMAIN heap) + 1 : a \notin DOMAIN heap

\* the three assert!s at the head of OwnedInstanceRef::new
new_asserts(T, length) ==
    /\ length <= ISIZE_MAX
    /\ length * T.size <= USIZE_MAX
    /\ length * T.size <= ISIZE_MAX

\* the allocation std::alloc::alloc(layout) returns, with id and length written
new_header(info, T, id, length) ==
    [size |-> info.layout.size,
     align |-> info.layout.align,
     mem |-> WriteCell(WriteCell(FreshMem(info.layout.size),
                                 info.id_offset, 4, "u32", id),
                       info.length_offset, 2, "u16", length),
     \* what the allocation was made for (not program state)
     T |-> T,
     array_start |-> info.array_start_offset,
     length |-> length]

\* OwnedInstanceRef::new up to the element loop.  null: the allocator fails.
NewBegin(h, T, id, length, null) ==
    LET info == InstanceLayoutInfo_new(T, length)
        failed(res) == [op |-> "new", res |-> res, h |-> h, T |-> T,
                        id |-> id, length |-> length, ptr |-> 0,
                        allocs |-> DOMAIN heap]
    IN
    /\ pc.op = "idle"
    /\ handles[h].state = "none"
    /\ IF ~new_asserts(T, length) \/ info = Panic
       THEN /\ last' = failed("panic")
            /\ log' = << >>
            /\ pc' = Unwinding
            /\ UNCHANGED heap
       ELSE IF info = Err
       THEN /\ last' = failed("err")
            /\ log' = << >>
            /\ UNCHANGED <<heap, pc>>
       ELSE IF null
       THEN /\ last' = failed("panic")
            /\ log' = <<Ev("alloc_null", 0, 0)>>
            /\ pc' = Unwinding
            /\ UNCHANGED heap
       ELSE /\ heap' = heap @@ (FreshAddr :> new_header(info.val, T, id, length))
            /\ pc' = [op |-> "new", h |-> h, T |-> T, id |-> id, length |-> length,
                      ptr |-> FreshAddr,
                      array_start_offset |-> info.val.array_start_offset,
                      i |-> 0]
            /\ log' = <<Ev("alloc", 0, 0), Ev("write_id", 0, id),
                        Ev("write_length", 0, length)>>
            /\ last' = [op |-> "new", res |-> "running", h |-> h]
    /\ UNCHANGED <<lay, handles>>

new_loop_more_le(i, length) == i <= length

\* `for i in 0..length`: is there another round?
new_loop_more(i, length) == i < length

\* one round of the loop: default_elem_func(i) returns v, written to slot i
NewInitElem(v) ==
    /\ pc.op = "new"
    /\ new_loop_more(pc.i, pc.length)
    /\ heap' = [heap EXCEPT ![pc.ptr].mem =
                   WriteCell(@, pc.array_start_offset + pc.i * pc.T.size,
                             pc.T.size, "T", v)]
    /\ log' = log \o <<Ev("init", pc.i, v), Ev("write", pc.i, v)>>
    /\ pc' = [pc EXCEPT !.i = @ + 1]
    /\ UNCHANGED <<lay, handles, last>>

\* default_elem_func(i) panics: new unwinds; ptr is a raw pointer, nothing runs for it
NewInitPanic ==
    /\ pc.op = "new"
    /\ new_loop_more(pc.i, pc.length)
    /\ log' = log \o <<Ev("init_panic", pc.i, 0)>>
    /\ last' = [op |-> "new", res |-> "init_panic", h |-> pc.h, T |-> pc.T,
                id |-> pc.id, length |-> pc.length, ptr |-> pc.ptr, k |-> pc.i]
    /\ pc' = Unwinding
    /\ UNCHANGED <<lay, heap, handles>>

\* the loop is over: Ok(OwnedInstanceRef { ptr, .. })
NewReturn ==
    /\ pc.op = "new"
    /\ ~new_loop_more(pc.i, pc.length)
    /\ handles' = [handles EXCEPT ![pc.h] =
                      [state |-> "owned", ptr |-> pc.ptr, T |-> pc.T]]
    /\ log' = log \o <<Ev("return", 0, 0)>>
    /\ last' = [op |-> "new", res |-> "ok", h |-> pc.h, T |-> pc.T,
                id |-> pc.id, length |-> pc.length, ptr |-> pc.ptr]
    /\ pc' = PcInit
    /\ UNCHANGED <<lay, heap>>

Usable(h) == pc.op = "idle" /\ handles[h].state = "owned"

\* val.id()
IdOp(h) ==
    /\ Usable(h)
    /\ last' = [op |-> "id", h |-> h, res |-> ReadId(handles[h].ptr)]
    /\ log' = << >>
    /\ UNCHANGED <<lay, heap, handles, pc>>

\* val.length()
LengthOp(h) ==
    /\ Usable(h)
    /\ last' = [op |-> "length", h |-> h, res |-> ReadLength(handles[h].ptr)]
    /\ log' = << >>
    /\ UNCHANGED <<lay, heap, handles, pc>>

\* what val.get(i) may return in the current state
GetOutcomes(h, i) ==
    LET ptr == handles[h].ptr
        T == handles[h].T
        length == ReadLength(ptr)
    IN  IF ~get_in_bounds(i, length) THEN { None }
        ELSE { Some(v) : v \in ReadOutcomes(heap[ptr].mem, get_offset(T, length, i),
                                            T.size, "T", Values) }

\* the bytes val.get(i) reads as an element
GetTouched(h, i) ==
    LET T == handles[h].T
        length == ReadLength(handles[h].ptr)
    IN  IF ~get_in_bounds(i, length) THEN { }
        ELSE Bytes(get_offset(T, length, i), T.size)

\* val.get(i)
Get(h, i) ==
    /\ Usable(h)
    /\ \E r \in GetOutcomes(h, i) :
          last' = [op |-> "get", h |-> h, i |-> i, res |-> r,
                   touched |-> GetTouched(h, i)]
    /\ log' = << >>
    /\ UNCHANGED <<lay, heap, handles, pc>>

\* if let Some(e) = val.get_mut(i) { *e = v }
GetMut(h, i, v) ==
    LET ptr == handles[h].ptr
        T == handles[h].T
        length == ReadLength(ptr)
        off == get_mut_offset(T, length, i)
        before == [op |-> "get_mut", h |-> h, i |-> i, v |-> v,
                   id |-> ReadId(ptr), length |-> length,
                   slots |-> [j \in 0 .. length - 1 |-> GetOutcomes(h, j)]]
    IN
    /\ Usable(h)
    /\ IF ~get_mut_in_bounds(i, length)
       THEN /\ last' = [res |-> None, touched |-> { }] @@ before
            /\ UNCHANGED heap
       ELSE /\ last' = [res |-> Some(v), touched |-> Bytes(off, T.size)] @@ before
            /\ heap' = [heap EXCEPT ![ptr].mem = WriteCell(@, off, T.size, "T", v)]
    /\ log' = << >>
    /\ UNCHANGED <<lay, handles, pc>>

\* val.as_slice()
AsSlice(h) ==
    LET ptr == handles[h].ptr
        T == handles[h].T
        length == ReadLength(ptr)
        off == [i \in 0 .. length - 1 |-> as_slice_offset(T, length, i)]
    IN
    /\ Usable(h)
    /\ \E view \in Views(heap[ptr].mem, T, length, off) :
          last' = [op |-> "as_slice", h |-> h, view |-> view,
                   touched |-> UNION { Bytes(off[i], T.size) : i \in 0 .. length - 1 }]
    /\ log' = << >>
    /\ UNCHANGED <<lay, heap, handles, pc>>

\* val.as_mut_slice()
AsMutSlice(h) ==
    LET ptr == handles[h].ptr
        T == handles[h].T
        length == ReadLength(ptr)
        off == [j \in 0 .. length - 1 |-> as_mut_slice_offset(T, length, j)]
    IN
    /\ Usable(h)
    /\ \E view \in Views(heap[ptr].mem, T, length, off) :
          last' = [op |-> "as_mut_slice", h |-> h, view |-> view,
                   touched |-> UNION { Bytes(off[j], T.size) : j \in 0 .. length - 1 }]
    /\ log' = << >>
    /\ UNCHANGED <<lay, heap, handles, pc>>

\* val.as_mut_slice()[i] = v, for an i the slice has
AsMutSliceWrite(h, i, v) ==
    LET ptr == handles[h].ptr
        T == handles[h].T
        length == ReadLength(ptr)
    IN
    /\ Usable(h)
    /\ i < length
    /\ heap' = [heap EXCEPT ![ptr].mem =
                   WriteCell(@, as_mut_slice_offset(T, length, i), T.size, "T", v)]
    /\ last' = [op |-> "as_mut_slice_write", h |-> h, i |-> i, v |-> v]
    /\ log' = << >>
    /\ UNCHANGED <<lay, handles, pc>>

drop_events_dealloc_first(T, length, info) ==
    <<Ev("read_length", 0, length),
      Ev("dealloc", info.layout.size, info.layout.align)>>
    \o [k \in 1 .. length |->
          Ev("drop_elem", k - 1, info.array_start_offset + (k - 1) * T.size)]

\* what Drop::drop does through the pointer, in program order:
\* the length read, ptr::read + drop of every slot, the dealloc(ptr, layout)
drop_events(T, length, info) ==
    <<Ev("read_length", 0, length)>>
    \o [k \in 1 .. length |->
          Ev("drop_elem", k - 1, info.array_start_offset + (k - 1) * T.size)]
    \o <<Ev("dealloc", info.layout.size, info.layout.align)>>

\* the owner lets go of the handle (end of scope, or unwinding):
\* impl Drop for OwnedInstanceRef
Drop(h) ==
    LET ptr == handles[h].ptr
        T == handles[h].T
        length == ReadLength(ptr)
        info == InstanceLayoutInfo_new(T, length)
    IN
    /\ pc.op \in {"idle", "unwinding"}
    /\ handles[h].state = "owned"
    /\ last' = [op |-> "drop", h |-> h, ptr |-> ptr, T |-> T,
                ok |-> IsOk(info),
                alloc |-> [size |-> heap[ptr].size, align |-> heap[ptr].align,
                           array_start |-> heap[ptr].array_start,
                           length |-> heap[ptr].length]]
    /\ IF ~IsOk(info)
       THEN /\ log' = <<Ev("read_length", 0, length)>>
            /\ UNCHANGED heap
       ELSE /\ log' = drop_events(T, length, info.val)
            /\ heap' = [a \in DOMAIN heap \ {ptr} |-> heap[a]]
    /\ handles' = [handles EXCEPT ![h] = HandlesInit[h]]
    /\ UNCHANGED <<lay, pc>>

\* the handle of main: `val`
Val == 1

Next ==
    \/ \E in \in NewInputs, id \in Ids, null \in BOOLEAN :
          NewBegin(Val, in[1], id, in[2], null)
    \/ \E v \in Values : NewInitElem(v)
    \/ NewInitPanic
    \/ NewReturn
    \/ IdOp(Val)
    \/ LengthOp(Val)
    \/ \E i \in Indices : Get(Val, i)
    \/ \E i \in Indices, v \in Values : GetMut(Val, i, v)
    \/ AsSlice(Val)
    \/ AsMutSlice(Val)
    \/ \E i \in Indices, v \in Values : AsMutSliceWrite(Val, i, v)
    \/ Drop(Val)

Spec == Init /\ [][Next]_vars

\* several owners: records are built and dropped side by side
NextOwners ==
    \/ \E h \in Handles, in \in NewInputs, id \in Ids, null \in BOOLEAN :
          NewBegin(h, in[1], id, in[2], null)
    \/ \E v \in Values : NewInitElem(v)
    \/ NewInitPanic
    \/ NewReturn
    \/ \E h \in Handles : Drop(h)

SpecOwners == Init /\ [][NextOwners]_vars

-----------------------------------------------------------------------------
(* The layout of the C struct { id: u32; length: u16; data: T[n] }, in      *)
(* closed form                                                               *)

CLayout(T, n) ==
    LET array_offset == RoundUp(6, T.align)
        total_align == Max(4, T.align)
    IN  [layout |-> [size |-> RoundUp(array_offset + n * T.size, total_align),
                     align |-> total_align],
         id_offset |-> 0,
         length_offset |-> 4,
         array_start_offset |-> array_offset]

\* the struct is an object the target can hold
Representable(T, n) == CLayout(T, n).layout.size <= ISIZE_MAX

-----------------------------------------------------------------------------
(* Claims about the layout calculator (SpecLayout) *)

\* C1: for every T and every length whose layout does not overflow,
\* InstanceLayoutInfo::new returns exactly the C sequential-field layout:
\* id_offset 0, length_offset 4, array_offset 6 rounded up to T's alignment,
\* total_align max(4, align), total_size the end of the array rounded up to
\* total_align.
C1_MatchesCLayout ==
    lay.called =>
        /\ Representable(lay.T, lay.length) => lay.res = Ok(CLayout(lay.T, lay.length))
        /\ IsOk(lay.res) => lay.res.val = CLayout(lay.T, lay.length)

\* a layout with padding before the array and none after it
C1_Witness ==
    /\ lay.called
    /\ lay.T = FieldValue
    /\ lay.length = 3
    /\ IsOk(lay.res)
    /\ lay.res.val.array_start_offset = 8
    /\ lay.res.val.layout = [size |-> 32, align |-> 8]

\* C2: in every layout returned, 0 <= id_offset < length_offset < array_offset
\* <= total_size; the three fields' byte ranges are pairwise disjoint and lie
\* inside [0, total_size]; array_offset is a multiple of T's alignment and
\* total_size a multiple of total_align.
C2_OffsetsOrderedDisjointAligned ==
    (lay.called /\ IsOk(lay.res)) =>
        LET r == lay.res.val
            id == Bytes(r.id_offset, 4)
            len == Bytes(r.length_offset, 2)
            arr == Bytes(r.array_start_offset, lay.length * lay.T.size)
        IN  /\ 0 <= r.id_offset
            /\ r.id_offset < r.length_offset
            /\ r.length_offset < r.array_start_offset
            /\ r.array_start_offset <= r.layout.size
            /\ id \cap len = { }
            /\ id \cap arr = { }
            /\ len \cap arr = { }
            /\ (id \cup len \cup arr) \subseteq 0 .. r.layout.size - 1
            /\ r.array_start_offset % lay.T.align = 0
            /\ r.layout.size % r.layout.align = 0

\* a layout with padding both before the array and after it
C2_Witness ==
    /\ lay.called
    /\ lay.T = Ty(12, 4)
    /\ lay.length = 3
    /\ IsOk(lay.res)
    /\ lay.res.val.array_start_offset = 8
    /\ lay.res.val.layout.size = 44

\* C4: whenever the layout for (length, T) is not representable, the
\* calculator (and with it new) reports a LayoutError value: it neither
\* panics nor returns a layout.
C4_OverflowIsReported ==
    (lay.called /\ ~Representable(lay.T, lay.length)) => lay.res = Err

-----------------------------------------------------------------------------
(* Claims about the record handle (Spec, SpecOwners) *)

\* the value slot i of the record behind h holds, when it is initialized
Slot(h, i) ==
    LET a == heap[handles[h].ptr]
        off == a.array_start + i * a.T.size
    IN  IF Readable(a.mem, off, a.T.size, "T") THEN Some(a.mem[off].v) ELSE None

\* C3: as_slice returns exactly length() elements and its i-th element is the
\* value stored in slot i, as get(i) returns it, whatever the element type.
C3_SliceShowsSlots ==
    last.op = "as_slice" =>
        LET length == ReadLength(handles[last.h].ptr)
        IN  /\ Len(last.view) = length
            /\ \A i \in 0 .. length - 1 :
                  /\ Some(last.view[i + 1]) = Slot(last.h, i)
                  /\ GetOutcomes(last.h, i) = { Some(last.view[i + 1]) }

\* C5: when the initializer panics at index k, the slots 0..k-1 have each
\* been torn down once and the allocation has been released before the panic
\* leaves new.
C5_PanicReleasesEverything ==
    (last.op = "new" /\ last.res = "init_panic") =>
        /\ last.ptr \notin DOMAIN heap
        /\ \A i \in 0 .. last.k - 1 :
              Cardinality({ n \in 1 .. Len(log) :
                              log[n].e = "drop_elem" /\ log[n].i = i }) = 1

\* who holds the allocation at address a: handles, and a new in progress
Owners(a) ==
    { h \in Handles : handles[h].state = "owned" /\ handles[h].ptr = a }

Building(a) == pc.op = "new" /\ pc.ptr = a

\* C6: every live allocation is owned by exactly one handle (or is the one
\* new is still building), and when every record that was created has been
\* destroyed no allocation is outstanding.
C6_OneOwnerNoLeak ==
    /\ \A a \in DOMAIN heap :
          Cardinality(Owners(a)) + (IF Building(a) THEN 1 ELSE 0) = 1
    /\ ((\A h \in Handles : handles[h].state = "none") /\ pc.op # "new")
          => DOMAIN heap = { }

\* C7: after a write of v through get_mut(i), i < length(), get(i) returns v,
\* get(j) returns what it returned before for every j # i, and id() and
\* length() are what they were.
C7_WriteThenRead ==
    (last.op = "get_mut" /\ last.i < last.length) =>
        /\ last.res = Some(last.v)
        /\ GetOutcomes(last.h, last.i) = { Some(last.v) }
        /\ \A j \in 0 .. last.length - 1 :
              j # last.i => GetOutcomes(last.h, j) = last.slots[j]
        /\ ReadId(handles[last.h].ptr) = last.id
        /\ ReadLength(handles[last.h].ptr) = last.length

\* slot 0 of a two-slot record changes from 0 to 1 while slot 1 holds 1
C7_Witness ==
    /\ last.op = "get_mut"
    /\ last.length = 2
    /\ last.i = 0
    /\ last.v = 1
    /\ last.slots[0] = { Some(0) }
    /\ last.slots[1] = { Some(1) }
    /\ last.res = Some(1)

\* C8: get(i) and get_mut(i) return a slot exactly when i < length(); for
\* i >= length() they return None, and the only bytes they touch as an
\* element are those of slot i of the allocation.
C8_BoundsChecked ==
    last.op \in {"get", "get_mut"} =>
        LET a == heap[handles[last.h].ptr]
        IN  /\ (last.res # None) <=> (last.i < a.length)
            /\ last.i >= a.length => last.touched = { }
            /\ last.i < a.length =>
                  last.touched = Bytes(a.array_start + last.i * a.T.size, a.T.size)
            /\ last.touched \subseteq Bytes(a.array_start, a.length * a.T.size)

\* get_mut at length() of a record that has an element
C8_Witness ==
    /\ last.op = "get_mut"
    /\ last.length = 1
    /\ last.i = 1
    /\ last.res = None

\* C9: teardown reads length, then tears down each slot 0..length-1 once in
\* ascending order, then releases the allocation with the size and alignment
\* it was obtained with; nothing goes through the pointer after the release.
C9_TeardownOrder ==
    last.op = "drop" =>
        LET n == last.alloc.length
        IN  /\ last.ok
            /\ Len(log) = n + 2
            /\ log[1] = Ev("read_length", 0, n)
            /\ \A k \in 1 .. n :
                  log[k + 1] = Ev("drop_elem", k - 1,
                                  last.alloc.array_start + (k - 1) * last.T.size)
            /\ log[n + 2] = Ev("dealloc", last.alloc.size, last.alloc.align)
            /\ last.ptr \notin DOMAIN heap

\* the teardown of a two-element record whose allocation ends in padding
C9_Witness ==
    /\ last.op = "drop"
    /\ last.T = TU16
    /\ last.alloc.length = 2
    /\ last.alloc.size = 12
    /\ Len(log) = 4

\* C10: a successful new(id, length, init) obtains the allocation, writes the
\* header, then calls init once for each index 0..length-1 in increasing
\* order, each result written to its slot, and only then returns the handle;
\* at that point slot i holds init(i), id() = id and length() = length.
C10_InitOrder ==
    (last.op = "new" /\ last.res = "ok") =>
        LET n == last.length
            ptr == handles[last.h].ptr
        IN  /\ handles[last.h].state = "owned"
            /\ ptr = last.ptr
            /\ Len(log) = 2 * n + 4
            /\ log[1] = Ev("alloc", 0, 0)
            /\ log[2] = Ev("write_id", 0, last.id)
            /\ log[3] = Ev("write_length", 0, n)
            /\ \A i \in 0 .. n - 1 :
                  /\ log[4 + 2 * i].e = "init"
                  /\ log[4 + 2 * i].i = i
                  /\ log[5 + 2 * i] = Ev("write", i, log[4 + 2 * i].v)
                  /\ GetOutcomes(last.h, i) = { Some(log[4 + 2 * i].v) }
            /\ log[2 * n + 4] = Ev("return", 0, 0)
            /\ ReadId(ptr) = last.id
            /\ ReadLength(ptr) = n

\* a record of two elements that init gave different values
C10_Witness ==
    /\ last.op = "new"
    /\ last.res = "ok"
    /\ last.length = 2
    /\ last.id = 1
    /\ Len(log) = 8
    /\ log[4].v = 1
    /\ log[6].v = 0

=============================================================================
